---- MODULE Spec2Model ----
(***************************************************************************)
(* A model of the Monkey lexer of src/src/main.rs: the Lexer struct, its   *)
(* constructor and next_token, driven by a caller that asks for tokens one *)
(* after the other and records what it is handed.                          *)
(*                                                                         *)
(* A character is a one-character string; a text (the input, a token's     *)
(* literal) is a sequence of characters.                                   *)
(***************************************************************************)
EXTENDS Integers, Sequences, FiniteSets, TLC

(***************************************************************************)
(* Bounds.                                                                 *)
(***************************************************************************)
\* longest input that is enumerated exhaustively over Alphabet
MaxLen == 3
\* how many more calls the caller makes beyond the Len(input) + 1 that
\* suffice to see the end of any input
MaxEofCalls == 2

(***************************************************************************)
(* Characters.                                                             *)
(***************************************************************************)
\* '\0', line 68, 84, 111, 152: the end-of-input sentinel
NUL == "\\0"

\* the whitespace characters without the carriage return
whitespace_chars_NoCR == {" ", "\t", "\n"}

\* the characters eat_whitespace skips
whitespace_chars == {" ", "\t", "\n", "\r"}

\* U+00E9, e with acute: alphabetic, and two bytes in UTF-8
EAcute == "\\u00e9"

\* The characters of the model for which char::is_alphabetic is true
Alphabetic ==
    {"f", "n", "l", "e", "t", "s", "x", "L", "m", "a", "i", "b", "c", "w", "o", EAcute}

\* The characters of the model for which char::is_numeric is true
Numeric == {"0", "1", "2", "3", "5"}

\* The punctuation the lexer knows
Punctuation == {"=", "+", "(", ")", "{", "}", ",", ";"}

\* Characters of no recognized class
Other == {"@", "#", "-"}

\* Characters that take more than one byte in the UTF-8 encoding of a String
MultiByte == {EAcute}

\* len_utf8 of a character
ByteLen(c) == IF c \in MultiByte THEN 2 ELSE 1

(***************************************************************************)
(* The inputs the lexer is built from: every text of at most MaxLen        *)
(* characters over Alphabet, and the texts of Samples.                     *)
(***************************************************************************)
Alphabet ==
    {"f", "n", "l", "e", "t", "_", "1"} \cup Punctuation \cup {"@", " "}

\* the input of the test lex_compound
CompoundInput ==
    << "f", "n", " ", "m", "a", "i", "n", "(", ")", " ", "{", " ",
       "l", "e", "t", " ", "i", " ", "=", " ", "(", "\n", "2", " ", "+",
       " ", " ", "2", " ", " ", " ", " ", ")", ";", " ", "}" >>

\* the token types lex_compound expects
correct_token_types ==
    << "FUNCTION", "IDENTIFIER", "LPARAN", "RPARAN", "LBRACE", "LET",
       "IDENTIFIER", "ASSIGN", "LPARAN", "INT", "PLUS", "INT", "RPARAN",
       "SEMICOLON", "RBRACE", "EOF" >>

\* the input of main
MainInput ==
    << "w", "o", "w", " ", "=", " ", "1", " ", "+", " ", "1", ";" >>

Samples ==
    { CompoundInput, MainInput,
      << "l", "e", "t", "s" >>, << "L", "e", "t" >>, << "_", "f", "n" >>,
      << "f", "n", "x" >>, << "f", "n", "1" >>,
      << "1", "2", "3", "a", "b", "c" >>, << "a", "b", "c", "1", "2", "3" >>,
      << "-", "5" >>, << "#" >>, << "=", "\n", "2" >>, << "1", "2", "\n" >>, << "\t", "\r", "f", "n", "\r", "\t" >>,
      << "l", "e", "t", "\t", "x", "\r", "=", "0", ";" >>,
      << "\t", "\n", "\r", " " >>, << "\r" >>, << "\n", "\t" >>,
      << "-", "1", "2" >>, << "-", "5", " ", "-", "1" >>, << " ", "-", "5" >> }

Inputs == (UNION { [1..k -> Alphabet] : k \in 0..MaxLen }) \cup Samples

\* Inputs with letters of more than one byte
UnicodeAlphabet == {EAcute, "a", "_", "1", "=", " "}

UnicodeInputs == UNION { [1..k -> UnicodeAlphabet] : k \in 0..MaxLen }

\* Inputs with '\0' in them
NulAlphabet == {NUL, "a", "1", "=", "@", " "}

NulInputs == UNION { [1..k -> NulAlphabet] : k \in 0..MaxLen }

(***************************************************************************)
(* The state: the three fields of the Lexer, the trace of the calls the    *)
(* caller has made, and whether a call has panicked.                       *)
(***************************************************************************)
VARIABLES input, read_position, current_char, trace, panicked

vars == << input, read_position, current_char, trace, panicked >>

\* the Lexer struct as a value
Lexer(in, pos, ch) == [input |-> in, read_position |-> pos, current_char |-> ch]

\* the Lexer of the current state
self == Lexer(input, read_position, current_char)

\* a Token
Token(type, lit) == [token_type |-> type, literal |-> lit]

TokenType ==
    { "ILLEGAL", "EOF", "ASSIGN", "PLUS", "COMMA", "SEMICOLON", "LPARAN",
      "RPARAN", "LBRACE", "RBRACE", "FUNCTION", "LET", "IDENTIFIER", "INT" }

(***************************************************************************)
(* String slicing, &input[a..b]: a and b count bytes, and the slice panics *)
(* unless a <= b <= len and both fall on a character boundary.             *)
(***************************************************************************)
RECURSIVE ByteOffset(_, _)
\* the byte index at which the character of (0-based) character index i starts
ByteOffset(s, i) == IF i = 0 THEN 0 ELSE ByteOffset(s, i - 1) + ByteLen(s[i])

IsCharBoundary(s, b) == \E i \in 0..Len(s) : ByteOffset(s, i) = b

CharIndex(s, b) == CHOOSE i \in 0..Len(s) : ByteOffset(s, i) = b

SliceOk(s, a, b) == a <= b /\ IsCharBoundary(s, a) /\ IsCharBoundary(s, b)

Slice(s, a, b) == SubSeq(s, CharIndex(s, a) + 1, CharIndex(s, b))

(***************************************************************************)
(* The methods of Lexer.                                                   *)
(***************************************************************************)
\* chars().nth(read_position).unwrap_or('\0'), then read_position += 1
read_char(l) ==
    [l EXCEPT !.current_char = IF l.read_position < Len(l.input)
                                  THEN l.input[l.read_position + 1]
                                  ELSE NUL,
              !.read_position = l.read_position + 1]

\* is_identifier_char as it would be if digits continued an identifier
is_identifier_char_WithDigits(l) ==
    l.current_char \in Alphabetic \cup Numeric \/ l.current_char = "_"

is_identifier_char(l) == l.current_char \in Alphabetic \/ l.current_char = "_"

\* is_number_char taking a sign for a number character
is_number_char_Signed(l) == l.current_char \in Numeric \cup {"-"}

is_number_char(l) == l.current_char \in Numeric

\* eat_whitespace with an if for its while
eat_whitespace_One(l) ==
    IF l.current_char \in whitespace_chars THEN read_char(l) ELSE l

RECURSIVE eat_whitespace(_)
eat_whitespace(l) ==
    IF l.current_char \in whitespace_chars THEN eat_whitespace(read_char(l)) ELSE l

\* the keyword table of lookup_identifier
token_type_words == << << << "f", "n" >>, "FUNCTION" >>, << << "l", "e", "t" >>, "LET" >> >>

\* lookup_identifier matching a keyword at the start of the identifier
lookup_identifier_Prefix(identifier) ==
    LET starts(k) == LET word == token_type_words[k][1]
                     IN  /\ Len(word) <= Len(identifier)
                         /\ SubSeq(identifier, 1, Len(word)) = word
    IN  IF \E k \in 1..Len(token_type_words) : starts(k)
        THEN token_type_words[CHOOSE k \in 1..Len(token_type_words) : starts(k)][2]
        ELSE "IDENTIFIER"

lookup_identifier(identifier) ==
    IF \E k \in 1..Len(token_type_words) : token_type_words[k][1] = identifier
    THEN LET k == CHOOSE k \in 1..Len(token_type_words) :
                      /\ token_type_words[k][1] = identifier
                      /\ \A j \in 1..(k - 1) : token_type_words[j][1] # identifier
         IN  token_type_words[k][2]
    ELSE "IDENTIFIER"

\* what a call hands back: the lexer as the call leaves it, and the token,
\* or panicked when the call unwinds instead of returning
Return(l, token) == [lexer |-> l, token |-> token, panicked |-> FALSE]
Panic(l) == [lexer |-> l, token |-> Token("ILLEGAL", << >>), panicked |-> TRUE]

RECURSIVE read_identifier_loop_Alnum(_)
\* the loop of read_identifier_token going on over digits as well
read_identifier_loop_Alnum(l) ==
    IF is_identifier_char(l) \/ is_number_char(l)
    THEN read_identifier_loop_Alnum(read_char(l)) ELSE l

RECURSIVE read_identifier_loop(_)
\* while self.is_identifier_char() { self.read_char(); }
read_identifier_loop(l) ==
    IF is_identifier_char(l) THEN read_identifier_loop(read_char(l)) ELSE l

RECURSIVE read_number_loop_Alnum(_)
\* the loop of read_number_token going on over letters as well
read_number_loop_Alnum(l) ==
    IF is_number_char(l) \/ is_identifier_char(l)
    THEN read_number_loop_Alnum(read_char(l)) ELSE l

RECURSIVE read_number_loop(_)
\* while self.is_number_char() { self.read_char(); }
read_number_loop(l) ==
    IF is_number_char(l) THEN read_number_loop(read_char(l)) ELSE l

read_identifier_token(l) ==
    LET start_position == l.read_position - 1
        l2 == read_identifier_loop(l)
    IN  IF SliceOk(l2.input, start_position, l2.read_position - 1)
        THEN LET literal == Slice(l2.input, start_position, l2.read_position - 1)
             IN  Return(l2, Token(lookup_identifier(literal), literal))
        ELSE Panic(l2)

read_number_token(l) ==
    LET start_position == l.read_position - 1
        l2 == read_number_loop(l)
    IN  IF SliceOk(l2.input, start_position, l2.read_position - 1)
        THEN LET literal == Slice(l2.input, start_position, l2.read_position - 1)
             IN  Return(l2, Token("INT", literal))
        ELSE Panic(l2)

\* the HashMap of next_token
single_char_token_map ==
    [c \in Punctuation \cup {NUL} |->
        CASE c = "=" -> "ASSIGN"
          [] c = "+" -> "PLUS"
          [] c = "(" -> "LPARAN"
          [] c = ")" -> "RPARAN"
          [] c = "{" -> "LBRACE"
          [] c = "}" -> "RBRACE"
          [] c = "," -> "COMMA"
          [] c = ";" -> "SEMICOLON"
          [] c = NUL -> "EOF"]

\* lines 100-106 without the read_char
advance_and_return_NoAdvance(l, token_type) ==
    Return(l, Token(token_type, << l.current_char >>))

\* lines 100-106 advancing twice
advance_and_return_Twice(l, token_type) ==
    LET l2 == read_char(read_char(l))
    IN  Return(l2, Token(token_type, << l2.current_char >>))

\* lines 100-106: advance to the next character, then build the token
advance_and_return(l, token_type) ==
    LET l2 == read_char(l)
    IN  Return(l2, Token(token_type, << l2.current_char >>))

\* lines 75-106: the dispatch on the current character
dispatch(l) ==
    IF l.current_char \in DOMAIN single_char_token_map
    THEN advance_and_return(l, single_char_token_map[l.current_char])
    ELSE IF is_identifier_char(l) THEN read_identifier_token(l)
    ELSE IF is_number_char(l) THEN read_number_token(l)
    ELSE advance_and_return(l, "ILLEGAL")

\* next_token skipping the whitespace after the token as well
next_token_TrailingSkip(l) ==
    LET l2 == eat_whitespace(l)
        r == IF l2.current_char = NUL
             THEN Return(l2, Token("EOF", << >>))
             ELSE dispatch(l2)
    IN  [r EXCEPT !.lexer = eat_whitespace(r.lexer)]

\* next_token advancing at the end of input as well
next_token_EofAdvances(l) ==
    LET l2 == eat_whitespace(l)
    IN  IF l2.current_char = NUL
        THEN Return(read_char(l2), Token("EOF", << >>))
        ELSE dispatch(l2)

\* next_token without the check of lines 68-73
next_token_NoEofCheck(l) == dispatch(eat_whitespace(l))

next_token(l) ==
    LET l2 == eat_whitespace(l)
    IN  IF l2.current_char = NUL
        THEN Return(l2, Token("EOF", << >>))
        ELSE dispatch(l2)

\* Lexer::new without the read_char of line 154
new_NoPrime(in) == Lexer(in, 0, NUL)

\* Lexer::new
new(in) == read_char(Lexer(in, 0, NUL))

(***************************************************************************)
(* The caller: Lexer::new on some input, then next_token again and again.  *)
(***************************************************************************)
Init ==
    \E in \in Inputs :
        /\ input = in
        /\ read_position = new(in).read_position
        /\ current_char = new(in).current_char
        /\ trace = << >>
        /\ panicked = FALSE

\* Lexer::new on a text with letters of more than one byte
InitUnicode ==
    \E in \in UnicodeInputs :
        /\ input = in
        /\ read_position = new(in).read_position
        /\ current_char = new(in).current_char
        /\ trace = << >>
        /\ panicked = FALSE

\* Lexer::new on a text that may hold '\0'
InitNul ==
    \E in \in NulInputs :
        /\ input = in
        /\ read_position = new(in).read_position
        /\ current_char = new(in).current_char
        /\ trace = << >>
        /\ panicked = FALSE

\* one call of next_token; the caller notes the token and where the cursor
\* was when it called (before), after the whitespace (start) and at the
\* return (after)
NextToken ==
    /\ ~panicked
    /\ Len(trace) < Len(input) + 1 + MaxEofCalls
    /\ LET r == next_token(self)
       IN  /\ read_position' = r.lexer.read_position
           /\ current_char' = r.lexer.current_char
           /\ panicked' = r.panicked
           /\ trace' = IF r.panicked THEN trace
                       ELSE Append(trace,
                                [token |-> r.token,
                                 before |-> read_position,
                                 start |-> eat_whitespace(self).read_position,
                                 after |-> r.lexer.read_position])
    /\ UNCHANGED input

Next == NextToken

Spec == Init /\ [][Next]_vars

SpecUnicode == InitUnicode /\ [][Next]_vars

SpecNul == InitNul /\ [][Next]_vars

(***************************************************************************)
(* What the caller has seen.                                               *)
(***************************************************************************)
\* the tokens handed out so far, in order
Tokens == [i \in 1..Len(trace) |-> trace[i].token]

\* the input character a cursor value p peeks at (p is read_position: the
\* 1-based index of the peeked character), the sentinel past the end
CharAt(p) == IF p \in 1..Len(input) THEN input[p] ELSE NUL

IsEof(i) == trace[i].token.token_type = "EOF"

EofReturned == \E i \in 1..Len(trace) : IsEof(i)

\* the index of the last character of the longest run of characters of S
\* that starts at index i of s (i - 1 when s[i] is not in S)
RunEnd(s, i, S) ==
    CHOOSE j \in (i - 1)..Len(s) :
        /\ \A k \in i..j : s[k] \in S
        /\ j = Len(s) \/ s[j + 1] \notin S

\* the classes of the source alphabet, as the specification names them
SpecWhitespace == {" ", "\t", "\n", "\r"}
SpecLetters == Alphabetic \cup {"_"}
SpecDigits == Numeric
SpecKind(c) ==
    CASE c = "=" -> "ASSIGN" [] c = "+" -> "PLUS" [] c = "(" -> "LPARAN"
      [] c = ")" -> "RPARAN" [] c = "{" -> "LBRACE" [] c = "}" -> "RBRACE"
      [] c = "," -> "COMMA" [] c = ";" -> "SEMICOLON"
SpecWordKind(w) ==
    IF w = << "f", "n" >> THEN "FUNCTION"
    ELSE IF w = << "l", "e", "t" >> THEN "LET" ELSE "IDENTIFIER"

(***************************************************************************)
(* C1. Termination: every call returns a token; the caller is handed EOF   *)
(* after finitely many calls (Len(input) + 1 at most), and once it has     *)
(* been handed EOF it is never handed anything else.                       *)
(***************************************************************************)
EofIsFinal ==
    \A i, j \in 1..Len(trace) : (i < j /\ IsEof(i)) => IsEof(j)

\* C1: no call fails, Len(input) + 1 calls have returned an EOF, and no
\* other token follows an EOF
C1_Termination ==
    /\ ~panicked
    /\ Len(trace) > Len(input) => EofReturned
    /\ EofIsFinal

\* tokens, then EOF, then EOF again
C1_Witness ==
    /\ Len(trace) >= 4
    /\ ~IsEof(1) /\ ~IsEof(2)
    /\ IsEof(Len(trace) - 1) /\ IsEof(Len(trace))

(***************************************************************************)
(* C2. A call that finds the sentinel after the whitespace returns EOF     *)
(* with empty text and leaves the lexer where the whitespace skipping left *)
(* it; from then on every call is such a call.                             *)
(***************************************************************************)
C2_Step ==
    LET w == eat_whitespace(self)
    IN  w.current_char = NUL =>
            /\ read_position' = w.read_position
            /\ current_char' = NUL
            /\ Len(trace') = Len(trace) + 1
            /\ trace'[Len(trace')].token = Token("EOF", << >>)
            /\ eat_whitespace(Lexer(input', read_position', current_char'))
                  = Lexer(input, w.read_position, NUL)

\* C2: at the sentinel next_token returns EOF "" and does not advance
C2_EofTerminal == [][C2_Step]_vars

\* whitespace was skipped to reach the end, and EOF was returned twice from
\* the same place
C2_Witness ==
    /\ Len(trace) >= 3
    /\ IsEof(Len(trace) - 1) /\ IsEof(Len(trace))
    /\ trace[Len(trace) - 1].before < trace[Len(trace) - 1].start
    /\ trace[Len(trace)].before = trace[Len(trace) - 1].after
    /\ trace[Len(trace)].after = trace[Len(trace) - 1].after

(***************************************************************************)
(* C3. The token types returned are those of the reference tokenization.   *)
(***************************************************************************)
RECURSIVE RefKinds(_, _)
\* the reference tokenization of s from index i on, read left to right
RefKinds(s, i) ==
    IF i > Len(s) THEN << "EOF" >>
    ELSE IF s[i] \in SpecWhitespace THEN RefKinds(s, i + 1)
    ELSE IF s[i] \in SpecLetters
         THEN LET j == RunEnd(s, i, SpecLetters)
              IN  << SpecWordKind(SubSeq(s, i, j)) >> \o RefKinds(s, j + 1)
    ELSE IF s[i] \in SpecDigits
         THEN << "INT" >> \o RefKinds(s, RunEnd(s, i, SpecDigits) + 1)
    ELSE IF s[i] \in Punctuation
         THEN << SpecKind(s[i]) >> \o RefKinds(s, i + 1)
    ELSE << "ILLEGAL" >> \o RefKinds(s, i + 1)

\* C3: the i-th token type returned is the i-th of the reference
\* tokenization (EOF beyond its end), and on the input of lex_compound the
\* i-th of the test's list
C3_Canonical ==
    LET ref == RefKinds(input, 1)
    IN  /\ \A i \in 1..Len(trace) :
              trace[i].token.token_type =
                  IF i <= Len(ref) THEN ref[i] ELSE "EOF"
        /\ input = CompoundInput =>
              \A i \in 1..Len(trace) :
                  i <= Len(correct_token_types) =>
                      trace[i].token.token_type = correct_token_types[i]

\* lex_compound has made its sixteen calls
C3_Witness ==
    /\ input = CompoundInput
    /\ Len(trace) = Len(correct_token_types)
    /\ IsEof(Len(trace))

(***************************************************************************)
(* C4. A punctuation character yields one token of its kind, the cursor    *)
(* advanced once, whose text is that character.                            *)
(***************************************************************************)
\* C4: every call that peeks one of = + ( ) { } , ; returns the mapped kind
\* with the character as text and advances once
C4_SingleChar ==
    \A i \in 1..Len(trace) :
        LET e == trace[i]
            c == CharAt(e.start)
        IN  c \in Punctuation =>
                /\ e.after = e.start + 1
                /\ e.token.token_type = SpecKind(c)
                /\ e.token.literal = << c >>

(***************************************************************************)
(* C5. A character of no class yields one ILLEGAL token whose text is that *)
(* character, the cursor advanced once; the next call goes on after it.    *)
(***************************************************************************)
Unrecognized(c) ==
    c \notin SpecWhitespace \cup SpecLetters \cup SpecDigits \cup Punctuation
        \cup {NUL}

\* C5: every call that peeks an unrecognized character returns ILLEGAL with
\* the character as text, advances once, and the next call starts after it
C5_IllegalFallback ==
    \A i \in 1..Len(trace) :
        LET e == trace[i]
            c == CharAt(e.start)
        IN  Unrecognized(c) =>
                /\ e.after = e.start + 1
                /\ e.token.token_type = "ILLEGAL"
                /\ e.token.literal = << c >>
                /\ i < Len(trace) => trace[i + 1].before = e.start + 1

(***************************************************************************)
(* C6. The texts of the tokens are consecutive slices of the input, and    *)
(* with the whitespace skipped before each they make up the input again.   *)
(***************************************************************************)
RECURSIVE Reconstruction(_)
\* the whitespace skipped by and the text returned by the first n calls
Reconstruction(n) ==
    IF n = 0 THEN << >>
    ELSE Reconstruction(n - 1)
            \o SubSeq(input, trace[n].before, trace[n].start - 1)
            \o trace[n].token.literal

\* C6: each text is the slice of the input its call consumed, and what the
\* calls skipped and returned is the input up to the cursor
C6_RoundTrip ==
    /\ \A i \in 1..Len(trace) :
          /\ trace[i].token.literal = SubSeq(input, trace[i].start, trace[i].after - 1)
          /\ trace[i].before = IF i = 1 THEN 1 ELSE trace[i - 1].after
    /\ Reconstruction(Len(trace)) = SubSeq(input, 1, read_position - 1)
    /\ EofReturned => Reconstruction(Len(trace)) = input

(***************************************************************************)
(* C7. A run of letters and underscores yields one token whose text is the *)
(* whole run, FUNCTION for "fn", LET for "let", IDENTIFIER otherwise.      *)
(***************************************************************************)
\* C7: every call that peeks a letter or an underscore returns the maximal
\* run as text, stops right after it, and classifies it by exact match
C7_KeywordExact ==
    /\ \A i \in 1..Len(trace) :
          LET e == trace[i]
              j == RunEnd(input, e.start, SpecLetters)
              text == SubSeq(input, e.start, j)
          IN  CharAt(e.start) \in SpecLetters =>
                  /\ e.token.literal = text
                  /\ e.after = j + 1
                  /\ e.token.token_type = "FUNCTION" <=> text = << "f", "n" >>
                  /\ e.token.token_type = "LET" <=> text = << "l", "e", "t" >>
                  /\ e.token.token_type = "IDENTIFIER" <=>
                        text \notin { << "f", "n" >>, << "l", "e", "t" >> }
    /\ ( /\ input \in { << "L", "e", "t" >>, << "_", "f", "n" >>,
                       << "f", "n", "x" >>, << "l", "e", "t", "s" >> }
         /\ trace # << >> )
          => trace[1].token = Token("IDENTIFIER", input)

\* "lets" was lexed
C7_Witness ==
    /\ input = << "l", "e", "t", "s" >>
    /\ Len(trace) >= 1
    /\ trace[1].token.token_type = "IDENTIFIER"

(***************************************************************************)
(* C8. The input "fn1".                                                    *)
(***************************************************************************)
Fn1 == << "f", "n", "1" >>

\* C8 as stated: "fn1" is one IDENTIFIER token with text "fn1", then EOF
C8_Fn1Identifier ==
    (input = Fn1 /\ Len(trace) >= 2) =>
        /\ trace[1].token = Token("IDENTIFIER", Fn1)
        /\ IsEof(2)

\* C8 as amended: "fn1" is FUNCTION "fn", then INT "1", then EOF
C8_Fn1FunctionInt ==
    input = Fn1 =>
        /\ Len(trace) >= 1 => trace[1].token = Token("FUNCTION", << "f", "n" >>)
        /\ Len(trace) >= 2 => trace[2].token = Token("INT", << "1" >>)
        /\ Len(trace) >= 3 => trace[3].token = Token("EOF", << >>)

\* "fn1" was lexed to its end
C8_Witness == input = Fn1 /\ Len(trace) = 3 /\ IsEof(3) /\ ~IsEof(2)

(***************************************************************************)
(* C9. Digits directly followed by letters: an INT token for the digits,   *)
(* then a word token for the letters, nothing skipped or shared.           *)
(***************************************************************************)
\* C9: a call that peeks a digit run directly followed by a letter run
\* returns INT with the digit run as text, and the next call returns a
\* FUNCTION, LET or IDENTIFIER token with the letter run as text, starting
\* where the first stopped
C9_DigitBoundary ==
    \A i \in 1..Len(trace) :
        LET e == trace[i]
            d == RunEnd(input, e.start, SpecDigits)
            w == RunEnd(input, d + 1, SpecLetters)
        IN  (CharAt(e.start) \in SpecDigits /\ CharAt(d + 1) \in SpecLetters) =>
                /\ e.token = Token("INT", SubSeq(input, e.start, d))
                /\ e.after = d + 1
                /\ i < Len(trace) =>
                      /\ trace[i + 1].before = d + 1
                      /\ trace[i + 1].start = d + 1
                      /\ trace[i + 1].after = w + 1
                      /\ trace[i + 1].token.token_type
                            \in {"FUNCTION", "LET", "IDENTIFIER"}
                      /\ trace[i + 1].token.token_type
                            = SpecWordKind(SubSeq(input, d + 1, w))
                      /\ trace[i + 1].token.literal = SubSeq(input, d + 1, w)

\* "123abc" was lexed
C9_Witness ==
    /\ input = << "1", "2", "3", "a", "b", "c" >>
    /\ Len(trace) >= 2
    /\ trace[1].token.token_type = "INT"
    /\ trace[2].token.token_type = "IDENTIFIER"

(***************************************************************************)
(* C10. Whitespace between tokens does not change the tokens: a second     *)
(* scanner runs on the input with one whitespace character more between    *)
(* two tokens, and is handed the same tokens.                              *)
(***************************************************************************)
RECURSIVE Scan(_, _)
\* the tokens a caller is handed by lexer l up to the first EOF; it makes at
\* most n calls
Scan(l, n) ==
    LET r == next_token(l)
    IN  IF r.panicked \/ n = 0 THEN << >>
        ELSE IF r.token.token_type = "EOF" THEN << r.token >>
        ELSE << r.token >> \o Scan(r.lexer, n - 1)

\* s with the character c put before its index p
Insert(s, p, c) == SubSeq(s, 1, p - 1) \o << c >> \o SubSeq(s, p, Len(s))

\* the places between the tokens of the input: where a call started, after
\* its whitespace (the end of the input is where the EOF call started)
Boundaries == { trace[i].start : i \in 1..Len(trace) }

\* C10: once the input is scanned, a scanner on the input with a whitespace
\* character inserted between two tokens returns the same kinds and texts
C10_WhitespaceInvariance ==
    (Len(trace) >= 1 /\ IsEof(Len(trace)) /\ (Len(trace) = 1 \/ ~IsEof(Len(trace) - 1))) =>
        \A p \in Boundaries : \A c \in SpecWhitespace :
            LET other == Insert(input, p, c)
            IN  Scan(new(other), Len(other) + 1) = Tokens

(***************************************************************************)
(* C11. new and next_token never fail.                                     *)
(***************************************************************************)
\* C11: no call panics, whatever the input, letters of more than one byte
\* included
C11_NeverFails == ~panicked

(***************************************************************************)
(* C12. Empty and whitespace-only input: EOF at the first call.            *)
(***************************************************************************)
WhitespaceOnly(s) == \A k \in 1..Len(s) : s[k] \in SpecWhitespace

\* C12: on an input of whitespace only (the empty input included) every
\* call, the first included, returns EOF with empty text
C12_WhitespaceOnly ==
    WhitespaceOnly(input) =>
        \A i \in 1..Len(trace) : trace[i].token = Token("EOF", << >>)

\* tab, newline, carriage return and space were scanned
C12_Witness ==
    /\ input = << "\t", "\n", "\r", " " >>
    /\ Len(trace) >= 1
    /\ IsEof(1)

(***************************************************************************)
(* C13. The peeked character is the input character just before the next   *)
(* unread position, or the sentinel past the end.                          *)
(***************************************************************************)
\* C13: current_char is the character of (0-based) index read_position - 1,
\* the sentinel past the end; after new it is the first character
C13_PeekedChar ==
    /\ read_position >= 1
    /\ current_char = CharAt(read_position)
    /\ trace = << >> =>
          /\ read_position = 1
          /\ current_char = IF input = << >> THEN NUL ELSE input[1]

\* two calls were made and the cursor is inside the input
C13_Witness ==
    /\ Len(trace) >= 2
    /\ read_position \in 2..Len(input)
    /\ current_char # NUL

(***************************************************************************)
(* C14. Digits do not continue an identifier.                              *)
(***************************************************************************)
AllIn(text, S) == \A k \in 1..Len(text) : text[k] \in S

\* C14: the text of a word token is a non-empty run of letters and
\* underscores, the text of an INT token a non-empty run of digits, and a
\* letter run directly followed by digits is a word token, then an INT
C14_NoDigitsInIdentifier ==
    \A i \in 1..Len(trace) :
        LET e == trace[i]
            w == RunEnd(input, e.start, SpecLetters)
            d == RunEnd(input, w + 1, SpecDigits)
        IN  /\ e.token.token_type \in {"IDENTIFIER", "FUNCTION", "LET"} =>
                  e.token.literal # << >> /\ AllIn(e.token.literal, SpecLetters)
            /\ e.token.token_type = "INT" =>
                  e.token.literal # << >> /\ AllIn(e.token.literal, SpecDigits)
            /\ (CharAt(e.start) \in SpecLetters /\ CharAt(w + 1) \in SpecDigits) =>
                  /\ e.token.token_type \in {"IDENTIFIER", "FUNCTION", "LET"}
                  /\ e.token.literal = SubSeq(input, e.start, w)
                  /\ i < Len(trace) =>
                        trace[i + 1].token = Token("INT", SubSeq(input, w + 1, d))

\* "abc123" was lexed
C14_Witness ==
    /\ input = << "a", "b", "c", "1", "2", "3" >>
    /\ Len(trace) >= 2
    /\ trace[1].token.token_type = "IDENTIFIER"
    /\ trace[2].token.token_type = "INT"

(***************************************************************************)
(* C15. A '-' is not combined with the integer that follows it.            *)
(***************************************************************************)
\* C15: a call that peeks '-' before a digit returns ILLEGAL and consumes
\* the '-' only; the next call returns INT with the digit run as text
C15_MinusSeparate ==
    \A i \in 1..Len(trace) :
        LET e == trace[i]
            d == RunEnd(input, e.start + 1, SpecDigits)
        IN  (CharAt(e.start) = "-" /\ CharAt(e.start + 1) \in SpecDigits) =>
                /\ e.token.token_type = "ILLEGAL"
                /\ e.after = e.start + 1
                /\ i < Len(trace) =>
                      /\ trace[i + 1].start = e.start + 1
                      /\ trace[i + 1].token = Token("INT", SubSeq(input, e.start + 1, d))

\* "-12" was lexed
C15_Witness ==
    /\ input = << "-", "1", "2" >>
    /\ Len(trace) >= 2
    /\ trace[1].token.token_type = "ILLEGAL"
    /\ trace[2].token = Token("INT", << "1", "2" >>)

(***************************************************************************)
(* C16. One token per call, one character of lookahead.                    *)
(***************************************************************************)
RECURSIVE SkipSpace(_)
\* the first index from p on that holds no whitespace (Len(input) + 1 when
\* there is none)
SkipSpace(p) ==
    IF p <= Len(input) /\ input[p] \in SpecWhitespace THEN SkipSpace(p + 1) ELSE p

\* the index of the last character of the token that starts at index p
TokenEnd(p) ==
    IF input[p] \in SpecLetters THEN RunEnd(input, p, SpecLetters)
    ELSE IF input[p] \in SpecDigits THEN RunEnd(input, p, SpecDigits)
    ELSE p

C16_Step ==
    LET p == SkipSpace(read_position)
    IN  /\ Len(trace') = Len(trace) + 1
        /\ trace'[Len(trace')].start = p
        /\ trace'[Len(trace')].token.token_type # "EOF" =>
              /\ p <= Len(input)
              /\ read_position' = TokenEnd(p) + 1
              /\ current_char' = CharAt(TokenEnd(p) + 1)

\* C16: a call returns one token; when it is not EOF the cursor is left on
\* the character right after the token's last character, whitespace after
\* the token not skipped
C16_OneLookahead == [][C16_Step]_vars

\* a word token was returned and the whitespace after it is still ahead
C16_Witness ==
    /\ Len(trace) >= 1
    /\ trace[Len(trace)].token.token_type \in {"IDENTIFIER", "FUNCTION", "LET"}
    /\ current_char \in SpecWhitespace
    /\ read_position < Len(input)

(***************************************************************************)
(* C17. Progress of the cursor.                                            *)
(***************************************************************************)
NonEof == { i \in 1..Len(trace) : ~IsEof(i) }

\* C17: the calls follow one another on the cursor, which never goes back;
\* a call that returns a token other than EOF moves it by the whitespace
\* skipped plus the length of the token (1 for a single-character or
\* ILLEGAL token, the run for a word or an INT); the cursor has read every
\* character once when EOF is returned, and at most Len(input) tokens other
\* than EOF are returned
C17_Progress ==
    /\ \A i \in 1..Len(trace) :
          LET e == trace[i]
          IN  /\ e.before = IF i = 1 THEN 1 ELSE trace[i - 1].after
              /\ e.before <= e.start /\ e.start <= e.after
              /\ e.start = SkipSpace(e.before)
              /\ ~IsEof(i) =>
                    /\ e.after > e.before
                    /\ e.after - e.before
                          = (e.start - e.before) + (TokenEnd(e.start) - e.start + 1)
                    /\ e.token.token_type \notin {"IDENTIFIER", "FUNCTION", "LET", "INT"}
                          => e.after - e.before = 1 + (e.start - e.before)
    /\ read_position = IF trace = << >> THEN 1 ELSE trace[Len(trace)].after
    /\ EofReturned => read_position = Len(input) + 1
    /\ Cardinality(NonEof) <= Len(input)

\* main's input was scanned to its end
C17_Witness ==
    /\ input = MainInput
    /\ EofReturned
    /\ Cardinality(NonEof) = 6

(***************************************************************************)
(* C18. The cursor and the slices stay within the input.                   *)
(***************************************************************************)
\* C18: read_position is within 1..Len(input) + 1, and the slice of a word
\* or INT token, input[start_position..read_position - 1] with
\* start_position the cursor at the start of the token less one, is not
\* empty and ends within the input
C18_Bounds ==
    /\ read_position \in 1..(Len(input) + 1)
    /\ \A i \in 1..Len(trace) :
          LET e == trace[i]
              start_position == e.start - 1
          IN  e.token.token_type \in {"IDENTIFIER", "FUNCTION", "LET", "INT"} =>
                  /\ start_position < e.after - 1
                  /\ e.after - 1 <= Len(input)

\* a word that ends the input was sliced, and EOF was returned twice
C18_Witness ==
    /\ Len(trace) >= 3
    /\ trace[Len(trace) - 2].token.token_type = "IDENTIFIER"
    /\ trace[Len(trace) - 2].after = Len(input) + 1
    /\ IsEof(Len(trace) - 1) /\ IsEof(Len(trace))

(***************************************************************************)
(* C19. A '\0' in the input ends the token stream.                         *)
(***************************************************************************)
\* the index of the first '\0' of the input (Len(input) + 1: none)
FirstNul ==
    IF \E k \in 1..Len(input) : input[k] = NUL
    THEN CHOOSE k \in 1..Len(input) :
            input[k] = NUL /\ \A j \in 1..(k - 1) : input[j] # NUL
    ELSE Len(input) + 1

\* C19: the cursor never passes the first '\0'; no token starts after it;
\* once it is peeked every call returns EOF and leaves the cursor there;
\* and every EOF token is the one of lines 68-73 (empty text, no advance),
\* never the one of the table (which advances and has a text)
C19_EmbeddedNul ==
    /\ read_position <= FirstNul
    /\ \A i \in 1..Len(trace) :
          LET e == trace[i]
          IN  /\ e.start <= FirstNul /\ e.after <= FirstNul
              /\ e.start = FirstNul <=> IsEof(i)
              /\ IsEof(i) => e.token.literal = << >> /\ e.after = e.start
              /\ e.before = FirstNul => (IsEof(i) /\ e.after = FirstNul)

\* the '\0' is in the middle of the input and EOF was returned twice at it
C19_Witness ==
    /\ FirstNul \in 2..(Len(input) - 1)
    /\ Len(trace) >= 3
    /\ ~IsEof(1)
    /\ IsEof(Len(trace) - 1) /\ IsEof(Len(trace))
    /\ read_position = FirstNul

====
